---- MODULE Spec2Model ----
(***************************************************************************)
(* A model of glassdoor_scraper.py: the collection loop of get_jobs, the   *)
(* field extractor safe_find and the description truncation of job_data.   *)
(*                                                                         *)
(* The browser is the environment: what a lookup, a click or a bounded     *)
(* wait yields is drawn by the action that performs it.  Text is a         *)
(* sequence of one-character strings.                                      *)
(***************************************************************************)
EXTENDS Integers, Sequences, FiniteSets, TLC

VARIABLES
    num_jobs,            \* get_jobs parameter (line 76)
    jobs,                \* line 133: the list of job_data dicts
    page_num,            \* line 134
    scraped_card_count,  \* line 139
    all_job_cards,       \* lines 155-157: the cards found by the last scan
    new_job_cards,       \* line 161
    idx,                 \* line 176: iterations of the for loop started
    pc,                  \* position in get_jobs
    result,              \* <<>> until get_jobs returns, then <<returned value>>
    fault,               \* the exception that left get_jobs, or "none"
    file,                \* glassdoor_jobs.csv
    reason,              \* history: which exit of the while loop was taken
    scan_log,            \* history: what each scan found (lines 146-157)
    dispatched,          \* history: cards that passed the check of line 177
    opened,              \* history: cards whose click and pane wait succeeded
    lookups,             \* history: continuation controls looked up
    last_try,            \* history: <<>>, or what opening the last card met
    call,                \* the pure-function specifications: the input
    ret                  \* <<>> until applied, then <<output>>

vars == <<num_jobs, jobs, page_num, scraped_card_count, all_job_cards,
          new_job_cards, idx, pc, result, fault, file, reason, scan_log,
          dispatched, opened, lookups, last_try, call, ret>>

loopVars == <<num_jobs, jobs, page_num, scraped_card_count, all_job_cards,
              new_job_cards, idx, pc, result, fault, file, reason, scan_log,
              dispatched, opened, lookups, last_try>>

(***************************************************************************)
(* Bounds of the model and constants of the program.                       *)
(***************************************************************************)
MaxJobs == 10
MaxCards == 5
MaxLocs == 3
MaxTextLen == 2
DescSlack == 2

max_pages == 10
DescLimit == 500

Sentinel == <<"-", "1">>
Marker == <<".", ".", ".">>
Whitespace == {" "}

Columns ==
    <<"Job Title", "Company", "Location", "Salary Estimate", "Rating",
      "Description", "Headquarters", "Size", "Founded", "Ownership",
      "Industry", "Sector", "Revenue", "Competitors">>

FieldSet == {Columns[i] : i \in 1..Len(Columns)}

(***************************************************************************)
(* Text helpers.                                                           *)
(***************************************************************************)
Rep(n, c) == [i \in 1..n |-> c]

RECURSIVE LStrip(_)
LStrip(t) ==
    IF t # <<>> /\ Head(t) \in Whitespace THEN LStrip(Tail(t)) ELSE t

RECURSIVE RStrip(_)
RStrip(t) ==
    IF t # <<>> /\ t[Len(t)] \in Whitespace
    THEN RStrip(SubSeq(t, 1, Len(t) - 1))
    ELSE t

\* str.strip() of line 48
strip(t) == RStrip(LStrip(t))

(***************************************************************************)
(* safe_find (lines 37-53).  found[i] is what find_element and .text give  *)
(* for the i-th selector: [found |-> FALSE] when either raises, else the   *)
(* element's text.                                                         *)
(***************************************************************************)
Miss == [found |-> FALSE, text |-> <<>>]
Hit(t) == [found |-> TRUE, text |-> t]

\* line 49 testing the text before the strip of line 48
TextAcceptedNoStrip(o) == o.text # <<>>

\* line 49: `if text:` after the strip of line 48
TextAccepted(o) == strip(o.text) # <<>>

RECURSIVE safe_find_from(_, _, _)
safe_find_from(found, i, default) ==
    IF i > Len(found) THEN default                       \* line 53
    ELSE IF ~found[i].found
         THEN safe_find_from(found, i + 1, default)      \* lines 51-52
         ELSE IF TextAccepted(found[i])
              THEN strip(found[i].text)                  \* lines 48-50
              ELSE safe_find_from(found, i + 1, default)

safe_find(found, default) == safe_find_from(found, 1, default)

(***************************************************************************)
(* The Description entry of job_data (line 224).                           *)
(***************************************************************************)
\* line 224 with >= for >
TooLongFrom500(d) == Len(d) >= DescLimit

\* line 224: len(job_description) > 500
TooLong(d) == Len(d) > DescLimit

Description(d) ==
    IF TooLong(d) THEN SubSeq(d, 1, DescLimit) \o Marker ELSE d

(***************************************************************************)
(* The detail pane shown for a card, as the selector outcomes of lines     *)
(* 206-219, for three kinds of pane:                                       *)
(*   full  every selector resolves to text;                                *)
(*   bare  no selector resolves;                                           *)
(*   long  only the last selector of a field resolves to text, the earlier *)
(*         ones to whitespace; the description has DescLimit + 1           *)
(*         characters between padding.                                     *)
(***************************************************************************)
PaneKinds == {"full", "bare", "long"}

\* the number of selectors passed to safe_find for each field (lines 206-219)
SelectorCount(f) ==
    CASE f = "Job Title" -> 3
      [] f \in {"Company", "Rating", "Salary Estimate", "Description"} -> 2
      [] OTHER -> 1

LongText(f) ==
    IF f = "Description"
    THEN <<" ">> \o Rep(DescLimit + 1, "a") \o <<" ">>
    ELSE <<"a", "a">>

DetailPane(kind) ==
    [f \in FieldSet |->
        [i \in 1..SelectorCount(f) |->
            CASE kind = "full" -> Hit(<<"a">>)
              [] kind = "bare" -> Miss
              [] OTHER -> IF i = SelectorCount(f)
                          THEN Hit(LongText(f))
                          ELSE Hit(<<" ">>)]]

\* lines 206-228: the dict appended for one detail pane
job_data(pane) ==
    [f \in FieldSet |->
        IF f = "Description"
        THEN Description(safe_find(pane[f], Sentinel))
        ELSE safe_find(pane[f], Sentinel)]

\* pd.DataFrame(jobs) of line 311: one row per dict, in list order; the
\* columns are the keys of the dicts, none for an empty list
DataFrame(list) ==
    [columns |-> IF list = <<>> THEN <<>> ELSE Columns,
     rows |-> [i \in 1..Len(list) |->
                 [c \in 1..Len(Columns) |-> list[i][Columns[c]]]]]

\* DataFrame.to_csv(path, index=False): a header row, then the data rows
to_csv(df) == [header |-> df.columns, rows |-> df.rows]

\* line 161 skipping one card too many
SliceFromNext(seq, k) ==
    IF k + 1 >= Len(seq) THEN <<>> ELSE SubSeq(seq, k + 2, Len(seq))

\* seq[k:] of line 161
SliceFrom(seq, k) ==
    IF k >= Len(seq) THEN <<>> ELSE SubSeq(seq, k + 1, Len(seq))

Cards(n) == [i \in 1..n |-> i]

\* lines 155-157: the second lookup is used only when the first finds nothing
FindCards(primary, fallback) ==
    IF primary # <<>> THEN primary ELSE fallback

(***************************************************************************)
(* get_jobs (lines 133-311).                                               *)
(***************************************************************************)
Init ==
    /\ num_jobs \in -1..MaxJobs
    /\ jobs = <<>>
    /\ page_num = 1
    /\ scraped_card_count = 0
    /\ all_job_cards = <<>>
    /\ new_job_cards = <<>>
    /\ idx = 0
    /\ pc = "while"
    /\ result = <<>>
    /\ fault = "none"
    /\ file = <<>>
    /\ reason = "none"
    /\ scan_log = <<>>
    /\ dispatched = <<>>
    /\ opened = <<>>
    /\ lookups = <<>>
    /\ last_try = <<>>
    /\ call = <<>>
    /\ ret = <<>>

\* line 142
LoopGuard == Len(jobs) < num_jobs /\ page_num <= max_pages

\* line 177 with > for >=
TargetReachedStrict == Len(jobs) > num_jobs

\* line 177
TargetReached == Len(jobs) >= num_jobs

\* line 142, condition false: control passes to line 306
WhileExit ==
    /\ pc = "while"
    /\ ~LoopGuard
    /\ pc' = "exit"
    /\ reason' = IF Len(jobs) >= num_jobs THEN "target" ELSE "page-limit"
    /\ UNCHANGED <<num_jobs, jobs, page_num, scraped_card_count,
                   all_job_cards, new_job_cards, idx, result, fault, file,
                   scan_log, dispatched, opened, lookups, last_try, call,
                   ret>>

\* ScanTimeout with `continue` for the `break` of line 152
ScanTimeoutContinue ==
    /\ pc = "while"
    /\ LoopGuard
    /\ scan_log' = Append(scan_log, [wait |-> "timeout", found |-> 0])
    /\ pc' = "while"
    /\ UNCHANGED <<num_jobs, jobs, page_num, scraped_card_count,
                   all_job_cards, new_job_cards, idx, result, fault, file,
                   reason, dispatched, opened, lookups, last_try, call, ret>>

\* lines 146-152: the wait for a listing times out
ScanTimeout ==
    /\ pc = "while"
    /\ LoopGuard
    /\ scan_log' = Append(scan_log, [wait |-> "timeout", found |-> 0])
    /\ pc' = "exit"
    /\ reason' = "no-listings"
    /\ UNCHANGED <<num_jobs, jobs, page_num, scraped_card_count,
                   all_job_cards, new_job_cards, idx, result, fault, file,
                   dispatched, opened, lookups, last_try, call, ret>>

\* ScanCards counting the page visit in page_num
ScanCardsCounting ==
    /\ pc = "while"
    /\ LoopGuard
    /\ \E p \in 0..MaxCards, f \in 0..MaxCards :
          LET found == FindCards(Cards(p), Cards(f)) IN
          /\ all_job_cards' = found
          /\ scan_log' = Append(scan_log,
                                [wait |-> "ok", found |-> Len(found)])
          /\ new_job_cards' = SliceFrom(found, scraped_card_count)
          /\ IF found = <<>>
             THEN pc' = "exit" /\ reason' = "no-listings"    \* lines 171-173
             ELSE pc' = "for" /\ reason' = reason            \* line 176
    /\ idx' = 0
    /\ page_num' = page_num + 1
    /\ UNCHANGED <<num_jobs, jobs, scraped_card_count, result,
                   fault, file, dispatched, opened, lookups, last_try, call,
                   ret>>

\* lines 146-173, the wait succeeds: the cards are looked up and sliced
ScanCards ==
    /\ pc = "while"
    /\ LoopGuard
    /\ \E p \in 0..MaxCards, f \in 0..MaxCards :
          LET found == FindCards(Cards(p), Cards(f)) IN
          /\ all_job_cards' = found
          /\ scan_log' = Append(scan_log,
                                [wait |-> "ok", found |-> Len(found)])
          /\ new_job_cards' = SliceFrom(found, scraped_card_count)
          /\ IF found = <<>>
             THEN pc' = "exit" /\ reason' = "no-listings"    \* lines 171-173
             ELSE pc' = "for" /\ reason' = reason            \* line 176
    /\ idx' = 0
    /\ UNCHANGED <<num_jobs, jobs, page_num, scraped_card_count, result,
                   fault, file, dispatched, opened, lookups, last_try, call,
                   ret>>

\* lines 182-194 without the `continue` of line 194
ClickSucceedsAlways(scroll, direct, js) == TRUE

\* lines 182-194: the card is scrolled into view and clicked, directly or,
\* when that raises, by script; any other exception skips the card
ClickSucceeds(scroll, direct, js) == scroll /\ (direct \/ js)

\* lines 185-188 without the click by script
ClickAttemptsDirectOnly(scroll, direct) ==
    IF scroll THEN <<"direct">> ELSE <<>>

\* lines 183-188: the clicks made on a card; none when the scroll raises,
\* the click by script only when the direct click raises
ClickAttempts(scroll, direct) ==
    IF ~scroll THEN <<>>
    ELSE IF direct THEN <<"direct">> ELSE <<"direct", "script">>

Met(tried, ok, bad) == IF ~tried THEN "none" ELSE IF ok THEN "ok" ELSE bad

\* what lines 182-203 met on one card: the outcome of each call made
Try(card, scroll, direct, js, pane) ==
    [card |-> card,
     scroll |-> Met(TRUE, scroll, "raises"),
     direct |-> Met(scroll, direct, "raises"),
     script |-> Met(scroll /\ ~direct, js, "raises"),
     pane |-> Met(ClickSucceeds(scroll, direct, js), pane, "timeout"),
     clicks |-> ClickAttempts(scroll, direct)]

\* lines 176-232: one iteration of the for loop past the check of line 177.
\* close_any_modal (line 180) cannot raise (lines 57, 73) and acts on the
\* page only, whose answers are drawn here.
Dispatch ==
    /\ pc = "for"
    /\ idx < Len(new_job_cards)
    /\ ~TargetReached
    /\ \E scroll \in BOOLEAN, direct \in BOOLEAN, js \in BOOLEAN,
          pane \in BOOLEAN, kind \in PaneKinds :
          LET card == new_job_cards[idx + 1] IN
          /\ dispatched' = Append(dispatched,
                                  [card |-> card, before |-> Len(jobs)])
          /\ last_try' = <<Try(card, scroll, direct, js, pane)>>
          /\ IF ClickSucceeds(scroll, direct, js) /\ pane
             THEN /\ jobs' = Append(jobs, job_data(DetailPane(kind)))
                  /\ opened' = Append(opened, card)
             ELSE UNCHANGED <<jobs, opened>>                 \* lines 194, 203
    /\ idx' = idx + 1
    /\ UNCHANGED <<num_jobs, page_num, scraped_card_count, all_job_cards,
                   new_job_cards, pc, result, fault, file, reason, scan_log,
                   lookups, call, ret>>

\* lines 177-178: the target is reached with cards of the batch left
ForBreak ==
    /\ pc = "for"
    /\ idx < Len(new_job_cards)
    /\ TargetReached
    /\ pc' = "persist"
    /\ UNCHANGED <<num_jobs, jobs, page_num, scraped_card_count,
                   all_job_cards, new_job_cards, idx, result, fault, file,
                   reason, scan_log, dispatched, opened, lookups, last_try,
                   call, ret>>

\* line 176: the batch is exhausted
ForDone ==
    /\ pc = "for"
    /\ idx = Len(new_job_cards)
    /\ pc' = "persist"
    /\ UNCHANGED <<num_jobs, jobs, page_num, scraped_card_count,
                   all_job_cards, new_job_cards, idx, result, fault, file,
                   reason, scan_log, dispatched, opened, lookups, last_try,
                   call, ret>>

\* the attributes of a Python list: jobs is the list of lines 133 and 230
ListAttributes ==
    {"append", "clear", "copy", "count", "extend", "index", "insert",
     "pop", "remove", "reverse", "sort"}

\* line 234 with the exception caught and the loop left
PagePersistBreaks ==
    /\ pc = "persist"
    /\ pc' = "exit"
    /\ UNCHANGED <<num_jobs, jobs, page_num, scraped_card_count,
                   all_job_cards, new_job_cards, idx, result, fault, file,
                   reason, scan_log, dispatched, opened, lookups, last_try,
                   call, ret>>

\* line 234: jobs.to_csv(...).  The attribute lookup on the list raises
\* AttributeError; no handler encloses the statement, so get_jobs is left.
PagePersist ==
    /\ pc = "persist"
    /\ IF "to_csv" \in ListAttributes
       THEN /\ file' = <<to_csv(DataFrame(jobs))>>
            /\ pc' = "nav"
            /\ fault' = fault
       ELSE /\ file' = file
            /\ pc' = "aborted"
            /\ fault' = "AttributeError"
    /\ UNCHANGED <<num_jobs, jobs, page_num, scraped_card_count,
                   all_job_cards, new_job_cards, idx, result, reason,
                   scan_log, dispatched, opened, lookups, last_try, call,
                   ret>>

\* lines 306-311
Return ==
    /\ pc = "exit"
    /\ pc' = "returned"
    /\ result' = <<DataFrame(jobs)>>
    /\ UNCHANGED <<num_jobs, jobs, page_num, scraped_card_count,
                   all_job_cards, new_job_cards, idx, fault, file, reason,
                   scan_log, dispatched, opened, lookups, last_try, call,
                   ret>>

Next ==
    \/ WhileExit
    \/ ScanTimeout
    \/ ScanCards
    \/ Dispatch
    \/ ForBreak
    \/ ForDone
    \/ PagePersist
    \/ Return

Spec == Init /\ [][Next]_vars

(***************************************************************************)
(* The continuation decision (lines 237-302).  Control reaches it only     *)
(* from line 234, so under Spec none of these actions is ever enabled;     *)
(* FullSpec adds them to Next, and NavUnreachable is the invariant that    *)
(* they change nothing.                                                    *)
(***************************************************************************)
LoadMoreCases ==
    {"clicked", "scroll-raises", "absent", "disabled", "hidden",
     "click-raises"}

SeeMoreCases == {"navigated", "absent", "no-href", "raises"}

\* line 237, condition false: back to line 142
NavSkipped ==
    /\ pc = "nav"
    /\ ~(Len(jobs) < num_jobs)
    /\ pc' = "while"
    /\ UNCHANGED <<num_jobs, jobs, page_num, scraped_card_count,
                   all_job_cards, new_job_cards, idx, result, fault, file,
                   reason, scan_log, dispatched, opened, lookups, last_try,
                   call, ret>>

\* lines 241-263
LoadMore ==
    /\ pc = "nav"
    /\ Len(jobs) < num_jobs
    /\ \E c \in LoadMoreCases :
          /\ lookups' = IF c = "scroll-raises" THEN lookups
                        ELSE Append(lookups, "load-more")
          /\ IF c = "clicked"
             THEN /\ scraped_card_count' = Len(all_job_cards)   \* line 253
                  /\ pc' = "while"                              \* line 260
             ELSE /\ scraped_card_count' = scraped_card_count
                  /\ pc' = "link"                               \* line 266
    /\ UNCHANGED <<num_jobs, jobs, page_num, all_job_cards, new_job_cards,
                   idx, result, fault, file, reason, scan_log, dispatched,
                   opened, last_try, call, ret>>

\* lines 266-302
SeeMore ==
    /\ pc = "link"
    /\ lookups' = Append(lookups, "see-more")
    /\ \E c \in SeeMoreCases :
          IF c = "navigated"
          THEN /\ scraped_card_count' = 0                       \* line 283
               /\ page_num' = 1                                 \* line 287
               /\ pc' = "while"                                 \* line 288
               /\ reason' = reason
          ELSE /\ UNCHANGED <<scraped_card_count, page_num>>
               /\ pc' = "exit"                       \* lines 293, 297, 302
               /\ reason' = "no-continuation"
    /\ UNCHANGED <<num_jobs, jobs, all_job_cards, new_job_cards, idx,
                   result, fault, file, scan_log, dispatched, opened,
                   last_try, call, ret>>

FullNext == Next \/ NavSkipped \/ LoadMore \/ SeeMore

FullSpec == Init /\ [][FullNext]_vars

\* No run reaches line 237 or beyond, and so none returns after line 234.
NavUnreachable ==
    /\ pc \notin {"nav", "link"}
    /\ lookups = <<>>
    /\ reason # "no-continuation"
    /\ scraped_card_count = 0
    /\ Len(scan_log) <= 1

(***************************************************************************)
(* safe_find and the Description entry on their own: the input is drawn    *)
(* in the initial state and one action applies the function.               *)
(***************************************************************************)
LoopIdle ==
    /\ num_jobs = 0
    /\ jobs = <<>>
    /\ page_num = 1
    /\ scraped_card_count = 0
    /\ all_job_cards = <<>>
    /\ new_job_cards = <<>>
    /\ idx = 0
    /\ pc = "idle"
    /\ result = <<>>
    /\ fault = "none"
    /\ file = <<>>
    /\ reason = "none"
    /\ scan_log = <<>>
    /\ dispatched = <<>>
    /\ opened = <<>>
    /\ lookups = <<>>
    /\ last_try = <<>>

Chars == {"a", " "}

Texts == UNION {[1..n -> Chars] : n \in 0..MaxTextLen}

Outcomes == {Miss} \cup {Hit(t) : t \in Texts}

LocatorLists == UNION {[1..n -> Outcomes] : n \in 0..MaxLocs}

FindInit ==
    /\ LoopIdle
    /\ call \in {<<found>> : found \in LocatorLists}
    /\ ret = <<>>

\* text = safe_find(base_element, selectors_list)
ApplySafeFind ==
    /\ pc = "idle"
    /\ ret = <<>>
    /\ ret' = <<safe_find(call[1], Sentinel)>>
    /\ UNCHANGED <<loopVars, call>>

FindSpec == FindInit /\ [][ApplySafeFind]_vars

\* a description of n characters
DescText(n) == [i \in 1..n |-> IF i % 2 = 0 THEN "a" ELSE "b"]

\* a detail pane whose second description selector resolves to text d
PaneWith(d) ==
    [DetailPane("full") EXCEPT !["Description"] = <<Miss, Hit(d)>>]

DescInit ==
    /\ LoopIdle
    /\ call \in {<<PaneWith(DescText(n))>> : n \in 0..(DescLimit + DescSlack)}
    /\ ret = <<>>

\* lines 206-228 for one detail pane
ApplyJobData ==
    /\ pc = "idle"
    /\ ret = <<>>
    /\ ret' = <<job_data(call[1])>>
    /\ UNCHANGED <<loopVars, call>>

DescSpec == DescInit /\ [][ApplyJobData]_vars

(***************************************************************************)
(* close_any_modal (lines 55-74) on its own.  page[i] is what the page     *)
(* answers for the i-th selector: "absent" when find_element raises,       *)
(* "clicked" when the element is found and its click succeeds,             *)
(* "click-raises" when it is found and its click raises.  The result is    *)
(* the trace of the call: the selectors looked up, those whose element     *)
(* was clicked, the one whose click succeeded (0 for none), and the        *)
(* exception that leaves the call.                                         *)
(***************************************************************************)
close_selectors ==
    <<"button[data-test='close-modal']", "button[aria-label='Close']",
      "button.CloseButton", "svg[data-test='close-icon']",
      "span[aria-label='Close']">>

ModalCases == {"absent", "clicked", "click-raises"}

\* lines 68-70 without the `return` of line 70
ClickReturnsNever(outcome) == FALSE

\* lines 68-70: the `return` is reached when click() did not raise
ClickReturns(outcome) == outcome = "clicked"

RECURSIVE close_from(_, _, _)
close_from(page, i, trace) ==
    IF i > Len(close_selectors) THEN trace                   \* lines 65, 74
    ELSE LET looked == [trace EXCEPT !.looked_up = Append(@, i)] IN
         IF page[i] = "absent"
         THEN close_from(page, i + 1, looked)                \* lines 71-72
         ELSE LET clicked == [looked EXCEPT !.activated = Append(@, i)] IN
              IF ClickReturns(page[i])
              THEN [clicked EXCEPT !.closed = i]             \* lines 69-70
              ELSE close_from(page, i + 1, clicked)          \* lines 71-72

close_any_modal(page) ==
    close_from(page, 1, [looked_up |-> <<>>, activated |-> <<>>,
                         closed |-> 0, raises |-> "none"])

ModalInit ==
    /\ LoopIdle
    /\ call \in {<<page>> : page \in [1..Len(close_selectors) -> ModalCases]}
    /\ ret = <<>>

\* close_any_modal(driver)
ApplyCloseAnyModal ==
    /\ pc = "idle"
    /\ ret = <<>>
    /\ ret' = <<close_any_modal(call[1])>>
    /\ UNCHANGED <<loopVars, call>>

ModalSpec == ModalInit /\ [][ApplyCloseAnyModal]_vars

(***************************************************************************)
(* The claims.                                                             *)
(***************************************************************************)
Final == {"returned", "aborted"}

\* the Dispatching phase of the current page is over
AfterDispatching == pc \in {"persist", "nav", "link", "exit"} \cup Final

DispatchedCards == [i \in 1..Len(dispatched) |-> dispatched[i].card]

AllOpened == opened = DispatchedCards

\* C1: for a target >= 0 the number of collected records never exceeds the
\* target, and no card is dispatched once the target is reached: every
\* dispatched card found fewer than num_jobs records collected.
C1_TargetNeverExceeded ==
    num_jobs >= 0 =>
        /\ Len(jobs) <= num_jobs
        /\ \A i \in 1..Len(dispatched) : dispatched[i].before < num_jobs

\* C1 witness: the for loop was left at the target with cards of the batch
\* not yet dispatched.
C1_StoppedMidBatch ==
    /\ pc = "persist"
    /\ num_jobs >= 1
    /\ Len(jobs) = num_jobs
    /\ idx < Len(new_job_cards)

\* C2: the step that follows every Dispatching phase completes: it leaves
\* the file with a header row and exactly len(jobs) data rows, and control
\* goes on to the continuation decision or to the end of the loop.
C2_PersistCompletes ==
    [][pc = "persist" =>
          /\ pc' \in {"nav", "while", "exit"}
          /\ file' # <<>>
          /\ file'[1].header = Columns
          /\ Len(file'[1].rows) = Len(jobs)]_vars

\* C3: a run that has collected k >= 1 records and has ended has returned
\* exactly those records, in the order they were appended.
C3_ReturnsCollected ==
    (pc \in Final /\ Len(jobs) >= 1) =>
        /\ pc = "returned"
        /\ result = <<DataFrame(jobs)>>
        /\ Len(result[1].rows) = Len(jobs)

\* C4: a run that has ended has left the loop for one of the four reasons
\* (target reached, no listings, no continuation, page limit) and returned.
C4_TerminatesForAReason ==
    pc \in Final =>
        /\ pc = "returned"
        /\ reason \in {"target", "no-listings", "no-continuation",
                       "page-limit"}

\* C5: when the first scan finds at least num_jobs cards and every
\* dispatched card opens, then once the Dispatching phase is over exactly
\* the first num_jobs cards have been dispatched, there has been one scan
\* at most and no continuation control has been looked up.
C5_FirstPageSuffices ==
    ( /\ num_jobs >= 0
      /\ AfterDispatching
      /\ AllOpened
      /\ (scan_log # <<>> => scan_log[1].found >= num_jobs) ) =>
        /\ DispatchedCards = Cards(num_jobs)
        /\ Len(jobs) = num_jobs
        /\ Len(scan_log) <= 1
        /\ lookups = <<>>

\* C5 witness: 5 cards on the first page, a target of 3, the run over.
C5_ThreeOfFive ==
    /\ pc \in Final
    /\ num_jobs = 3
    /\ scan_log = <<[wait |-> "ok", found |-> 5]>>
    /\ AllOpened
    /\ DispatchedCards = Cards(3)

\* C6: with a target of 10, 5 cards found by the first scan and every
\* dispatched card opening, a run that has ended has dispatched cards 1..10,
\* each once, collected 10 records and activated load-more once, the second
\* pass starting from a processed count of 5.
C6_LoadMoreResumes ==
    ( /\ pc \in Final
      /\ num_jobs = 10
      /\ scan_log # <<>>
      /\ scan_log[1] = [wait |-> "ok", found |-> 5]
      /\ AllOpened ) =>
        /\ DispatchedCards = Cards(10)
        /\ Len(jobs) = 10
        /\ lookups = <<"load-more">>
        /\ scraped_card_count = 5

\* C7: when the wait of the first scan times out, the loop is left for
\* no-listings: nothing is dispatched, nothing collected, no continuation
\* control is looked up, there is no second scan, and what get_jobs returns
\* is the empty collection.
C7_NoListings ==
    (scan_log # <<>> /\ scan_log[1].wait = "timeout") =>
        /\ pc \in {"exit", "returned"}
        /\ reason = "no-listings"
        /\ Len(scan_log) = 1
        /\ dispatched = <<>>
        /\ jobs = <<>>
        /\ lookups = <<>>
        /\ fault = "none"
        /\ (pc = "returned" => result = <<[columns |-> <<>>, rows |-> <<>>]>>)

\* C7 witness: get_jobs has returned after the first wait timed out.
C7_ReturnedAfterTimeout ==
    /\ pc = "returned"
    /\ scan_log = <<[wait |-> "timeout", found |-> 0]>>
    /\ num_jobs = 2

\* t is text with the whitespace at both ends removed, and is not empty
IsTrimOf(t, text) ==
    /\ t # <<>>
    /\ Head(t) \notin Whitespace
    /\ t[Len(t)] \notin Whitespace
    /\ \E a \in 0..Len(text) :
          /\ a + Len(t) <= Len(text)
          /\ SubSeq(text, a + 1, a + Len(t)) = t
          /\ \A i \in (1..a) \cup ((a + Len(t) + 1)..Len(text)) :
                text[i] \in Whitespace

\* selector i resolves to text that is not only whitespace
Resolves(found, i) ==
    /\ found[i].found
    /\ \E j \in 1..Len(found[i].text) : found[i].text[j] \notin Whitespace

\* C8: safe_find returns the trimmed text of the first selector, in list
\* order, that resolves to text that is not empty or only whitespace, and
\* the sentinel "-1" when no selector does; it returns for every list.
C8_FirstNonEmptyText ==
    ret # <<>> =>
        LET found == call[1]
            hits == {i \in 1..Len(found) : Resolves(found, i)}
        IN  IF hits = {}
            THEN ret[1] = <<"-", "1">>
            ELSE LET k == CHOOSE i \in hits : \A j \in hits : i <= j
                 IN  IsTrimOf(ret[1], found[k].text)

\* C8 witness: a failing selector, one with only whitespace, then padded text.
C8_ThirdSelectorWins ==
    /\ ret = <<<<"a">>>>
    /\ call = << <<Miss, Hit(<<" ">>), Hit(<<" ", "a">>)>> >>

\* the description as extracted for the pane of call (line 211)
Extracted == safe_find(call[1]["Description"], Sentinel)

\* C9: the Description of the record is the first 500 characters of the
\* extracted description followed by "...", 503 characters in all, when
\* the extracted description has more than 500 characters, and is the
\* extracted description itself when it has 500 or fewer.
C9_DescriptionTruncated ==
    ret # <<>> =>
        LET d == Extracted
            out == ret[1]["Description"]
        IN  IF Len(d) > 500
            THEN /\ Len(out) = 503
                 /\ \A i \in 1..500 : out[i] = d[i]
                 /\ \A i \in 501..503 : out[i] = "."
            ELSE out = d

\* C9 witness: a description of 501 characters has become one of 503.
C9_LongDescription ==
    /\ ret # <<>>
    /\ Len(Extracted) = 501
    /\ Len(ret[1]["Description"]) = 503

\* a step of the for loop that dispatches a card
DispatchStep == pc = "for" /\ idx' = idx + 1

\* C14: a card that cannot be opened is skipped and the batch goes on.  In
\* every dispatch of a card: a direct click that raises is followed by
\* exactly one click by script, a direct click that succeeds by none; and
\* when both clicks raise, or the wait for the detail pane times out, jobs
\* is unchanged and the for loop goes on to the next card of the same batch.
C14_UnopenedCardSkipped ==
    [][DispatchStep =>
          LET t == last_try'[1] IN
          /\ t.card = new_job_cards[idx + 1]
          /\ (t.direct = "raises" => t.clicks = <<"direct", "script">>)
          /\ (t.direct = "ok" => t.clicks = <<"direct">>)
          /\ ( \/ (t.direct = "raises" /\ t.script = "raises")
               \/ t.pane = "timeout" ) =>
                /\ jobs' = jobs
                /\ pc' = "for"
                /\ new_job_cards' = new_job_cards
                /\ Len(jobs') < num_jobs]_vars

\* C14 witness: the first card of a batch was skipped, the second was then
\* dispatched, opened by the click by script, and its pane timed out.
C14_SkippedThenNext ==
    /\ pc = "for"
    /\ Len(dispatched) = 2
    /\ jobs = <<>>
    /\ last_try # <<>>
    /\ last_try[1].card = 2
    /\ last_try[1].clicks = <<"direct", "script">>
    /\ last_try[1].pane = "timeout"
    /\ idx < Len(new_job_cards)

\* C15: jobs is append-only and matches the opened cards one to one: every
\* step leaves jobs unchanged or adds one record at its end; a record is
\* added exactly by the dispatch of a card whose scroll, one of whose clicks
\* and whose wait for the detail pane all succeeded; and len(jobs) is the
\* number of such cards.
C15_AppendOnly ==
    /\ [](Len(jobs) = Len(opened))
    /\ [][/\ \/ jobs' = jobs
             \/ /\ Len(jobs') = Len(jobs) + 1
                /\ SubSeq(jobs', 1, Len(jobs)) = jobs
          /\ ~DispatchStep => (jobs' = jobs /\ opened' = opened)
          /\ DispatchStep =>
                LET t == last_try'[1]
                    ok == /\ t.scroll = "ok"
                          /\ (t.direct = "ok" \/ t.script = "ok")
                          /\ t.pane = "ok"
                IN  /\ ok <=> jobs' # jobs
                    /\ opened' = IF ok THEN Append(opened, t.card)
                                 ELSE opened]_vars

\* C15 witness: three cards dispatched, the second one skipped.
C15_TwoOfThree ==
    /\ Len(dispatched) = 3
    /\ opened = <<1, 3>>
    /\ Len(jobs) = 2

\* the least element of a non-empty set of numbers
Least(S) == CHOOSE i \in S : \A j \in S : i <= j

\* C16 as stated: the call looks up the selectors in order up to the first
\* one that matches an element, clicks that element and nothing else, and
\* looks up no later selector; with no match it looks up all five, clicks
\* nothing and does not raise.
C16_StopsAtFirstMatch ==
    ret # <<>> =>
        LET page == call[1]
            matches == {i \in 1..Len(page) : page[i] # "absent"}
        IN  /\ ret[1].raises = "none"
            /\ IF matches = {}
               THEN /\ ret[1].looked_up = Cards(Len(page))
                    /\ ret[1].activated = <<>>
               ELSE /\ ret[1].looked_up = Cards(Least(matches))
                    /\ ret[1].activated = <<Least(matches)>>

\* C16 amended: the call looks up the selectors in order up to the first
\* one whose element is found and whose click succeeds, clicks every
\* element found on the way, and looks up no later selector; when no click
\* succeeds it looks up all five; it never raises.
C16_StopsAtFirstClick ==
    ret # <<>> =>
        LET page == call[1]
            clickable == {i \in 1..Len(page) : page[i] = "clicked"}
            last == IF clickable = {} THEN Len(page) ELSE Least(clickable)
            Matches(i) == page[i] # "absent"
        IN  /\ ret[1].raises = "none"
            /\ ret[1].looked_up = Cards(last)
            /\ ret[1].activated = SelectSeq(Cards(last), Matches)
            /\ ret[1].closed = IF clickable = {} THEN 0 ELSE last

\* C16 witness: the second selector's click raises, the third's succeeds,
\* the fourth would match too.
C16_ThirdCloses ==
    /\ call = << <<"absent", "click-raises", "clicked", "clicked",
                   "absent">> >>
    /\ ret # <<>>
    /\ ret[1].looked_up = <<1, 2, 3>>
    /\ ret[1].activated = <<2, 3>>

\* C17: page_num is 1 in every state, so the test page_num <= max_pages of
\* line 142 never fails and no run leaves the loop for the page limit.
C17_PageNumStaysOne ==
    /\ page_num = 1
    /\ page_num <= max_pages
    /\ reason # "page-limit"

\* C17 witness: a page of 5 cards has been scanned and dispatched.
C17_AfterAPage ==
    /\ pc = "persist"
    /\ Len(dispatched) = 5
    /\ page_num = 1

\* C18: when get_jobs has returned, what it returned is the empty
\* collection: nothing was dispatched, and either num_jobs <= 0 or the one
\* scan made ended the loop with no listings (a timeout or no cards).
C18_ReturnsOnlyEmpty ==
    pc = "returned" =>
        /\ result = <<[columns |-> <<>>, rows |-> <<>>]>>
        /\ jobs = <<>>
        /\ dispatched = <<>>
        /\ \/ num_jobs <= 0 /\ scan_log = <<>> /\ reason = "target"
           \/ /\ num_jobs > 0
              /\ Len(scan_log) = 1
              /\ scan_log[1].found = 0
              /\ reason = "no-listings"

\* C18 witness: get_jobs has returned after a scan that found no cards.
C18_ReturnedAfterEmptyScan ==
    /\ pc = "returned"
    /\ num_jobs = 3
    /\ scan_log = <<[wait |-> "ok", found |-> 0]>>

====
